---- MODULE Spec2Model ----
(***************************************************************************)
(* Model of src/base/scoped_ptr.h: the scoped_ptr<C> and scoped_array<C>   *)
(* owning wrappers, the calls a client can make on them, and an            *)
(* instrumented deallocator that counts the calls of `delete` and of       *)
(* `delete[]` per reference.                                               *)
(***************************************************************************)
EXTENDS Integers, FiniteSets, Sequences

\* ---------------------------------------------------------------- bounds
\* Number of storage slots in which a client constructs wrapper instances.
NumWrappers == 2
\* Number of distinct allocations whose pointers the client can pass in.
NumRefs == 2
\* The instrumented deallocator records at most this many calls in a run.
MaxDeallocs == 2
\* Largest index passed to scoped_array::operator[] (the smallest is -1).
\* The arrays the client allocates have MaxIndex elements, so that index
\* MaxIndex lies one past the end of the allocation.
MaxIndex == 2
\* Largest value the client stores in an element (the smallest is 0).
MaxValue == 1

Wrappers == 1..NumWrappers
Refs == 1..NumRefs
\* nullptr
Null == 0
Pointers == Refs \cup {Null}
Indices == (-1)..MaxIndex
\* The indices inside an allocation, and the values an element can hold.
Cells == 0..(MaxIndex - 1)
Values == 0..MaxValue

VARIABLES
  live,              \* slots holding a constructed, not yet destroyed instance
  kind,              \* class of the instance in a slot
  ptr_,              \* scoped_ptr::ptr_ of the instance in a slot
  array_,            \* scoped_array::array_ of the instance in a slot
  deleteCalls,       \* reference -> number of `delete` calls on it
  deleteArrayCalls,  \* reference -> number of `delete[]` calls on it
  heap,              \* reference -> the elements stored in the allocation
  ndebug,            \* the build defines NDEBUG (assert() expands to nothing)
  last,              \* the most recent call and what it gave back
  disciplined,       \* no call so far adopted a held or deallocated reference
  relinquished,      \* instances released and given no reference since
  written,           \* reference -> the value last stored at each index
  custody,           \* references adopted and not handed back by release since
  exclusive          \* no call so far adopted a reference another one held

vars == <<live, kind, ptr_, array_, deleteCalls, deleteArrayCalls, heap,
          ndebug, last, disciplined, relinquished, written, custody,
          exclusive>>

\* ------------------------------------------------------------- helpers
\* The pointer an instance holds: what its get() returns.
Held(w) == IF kind[w] = "scoped_array" THEN array_[w] ELSE ptr_[w]

\* Calls of either deallocation primitive on reference r.
Deallocs(r) == deleteCalls[r] + deleteArrayCalls[r]

RECURSIVE SumCalls(_, _)
SumCalls(calls, n) == IF n = 0 THEN 0 ELSE calls[n] + SumCalls(calls, n - 1)

TotalDeallocs ==
  SumCalls(deleteCalls, NumRefs) + SumCalls(deleteArrayCalls, NumRefs)

\* The deallocation calls a delete-expression on p makes: none on a null
\* pointer, otherwise one call that is handed p.
DeleteExpr(p) == IF p = Null THEN <<>> ELSE <<p>>

\* The instrumented deallocator counts every call in the sequence `log`.
RECURSIVE Record(_, _)
Record(calls, log) ==
  IF log = <<>> THEN calls
  ELSE Record([calls EXCEPT ![Head(log)] = @ + 1], Tail(log))

\* The deallocator's counters have room for the calls in `log`.
CanRecord(log) == TotalDeallocs + Len(log) <= MaxDeallocs

\* Handing a deallocation primitive a reference that was deallocated before
\* is undefined: the build may abort in that call or return from it.
Outcomes(log) ==
  IF \E i \in 1..Len(log) : Deallocs(log[i]) > 0
    THEN {"returned", "aborted"}
    ELSE {"returned"}

\* The caller hands over a pointer that it is entitled to hand over: nullptr,
\* or a reference no live instance holds and no wrapper has deallocated.
Unowned(p) ==
  \/ p = Null
  \/ /\ \A v \in live : Held(v) # p
     /\ Deallocs(p) = 0

\* The caller hands over a pointer that no other live instance holds.
NotShared(w, p) == p = Null \/ \A v \in live \ {w} : Held(v) # p

\* The references in the wrappers' custody once a call has adopted p.  They
\* are followed as long as no call has adopted a reference another instance
\* held (ok); from then on the set is left empty.
Adopted(p, ok) ==
  IF ~ok THEN {}
  ELSE IF p = Null THEN custody
  ELSE custody \cup {p}

\* The record of one call: the class and slot of the instance, the operation
\* and the pointer the instance held when it was called; then, as far as the
\* call has them, its argument (a pointer, an index, or for swap the other
\* slot, with argOld the pointer that instance held), what it returned (ret
\* a pointer, truth a bool, value an element's value), whether it returned
\* at all, and the pointers it handed, in order, to `delete` and to
\* `delete[]`.
Call(class, op, w, old) ==
  [class |-> class, op |-> op, w |-> w, old |-> old,
   arg |-> Null, argOld |-> Null, ret |-> Null, truth |-> FALSE, value |-> 0,
   outcome |-> "returned", deleted |-> <<>>, deletedArr |-> <<>>]

Running == last.outcome # "aborted"

\* ---------------------------------------------------------------- Init
Init ==
  /\ live = {}
  /\ kind = [w \in Wrappers |-> "none"]
  /\ ptr_ = [w \in Wrappers |-> Null]
  /\ array_ = [w \in Wrappers |-> Null]
  /\ deleteCalls = [r \in Refs |-> 0]
  /\ deleteArrayCalls = [r \in Refs |-> 0]
  /\ heap = [r \in Refs |-> [i \in Cells |-> 0]]
  /\ ndebug \in BOOLEAN
  /\ last = Call("none", "start", 0, Null)
  /\ disciplined = TRUE
  /\ relinquished = {}
  /\ written = heap
  /\ custody = {}
  /\ exclusive = TRUE

\* ---------------------------------------------------------- scoped_ptr
\* explicit scoped_ptr(C* p = nullptr) : ptr_(p) { }
PtrConstruct(w, p) ==
  /\ Running
  /\ w \notin live
  /\ live' = live \cup {w}
  /\ kind' = [kind EXCEPT ![w] = "scoped_ptr"]
  /\ ptr_' = [ptr_ EXCEPT ![w] = p]
  /\ disciplined' = (disciplined /\ Unowned(p))
  /\ relinquished' = relinquished \ {w}
  /\ last' = [Call("scoped_ptr", "construct", w, Null)
                EXCEPT !.arg = p]
  /\ exclusive' = (exclusive /\ NotShared(w, p))
  /\ custody' = Adopted(p, exclusive')
  /\ UNCHANGED <<array_, deleteCalls, deleteArrayCalls, heap, ndebug,
                 written>>

\* A destructor without `delete ptr_`.
PtrDestructLeaks(w) ==
  /\ Running
  /\ w \in live
  /\ kind[w] = "scoped_ptr"
  /\ live' = live \ {w}
  /\ kind' = [kind EXCEPT ![w] = "none"]
  /\ ptr_' = [ptr_ EXCEPT ![w] = Null]
  /\ relinquished' = relinquished \ {w}
  /\ last' = Call("scoped_ptr", "destruct", w, ptr_[w])
  /\ UNCHANGED <<array_, deleteCalls, deleteArrayCalls, heap, ndebug,
                 disciplined,
                 written, custody, exclusive>>

\* ~scoped_ptr() { delete ptr_; }   The instance's storage ends with it.
PtrDestruct(w) ==
  /\ Running
  /\ w \in live
  /\ kind[w] = "scoped_ptr"
  /\ CanRecord(DeleteExpr(ptr_[w]))
  /\ deleteCalls' = Record(deleteCalls, DeleteExpr(ptr_[w]))
  /\ \E outcome \in Outcomes(DeleteExpr(ptr_[w])) :
       /\ last' = [Call("scoped_ptr", "destruct", w, ptr_[w])
                     EXCEPT !.deleted = DeleteExpr(ptr_[w]),
                            !.outcome = outcome]
       /\ IF outcome = "returned"
            THEN /\ live' = live \ {w}
                 /\ kind' = [kind EXCEPT ![w] = "none"]
                 /\ ptr_' = [ptr_ EXCEPT ![w] = Null]
                 /\ relinquished' = relinquished \ {w}
            ELSE UNCHANGED <<live, kind, ptr_, relinquished>>
  /\ UNCHANGED <<array_, deleteArrayCalls, heap, ndebug, disciplined,
                 written, custody, exclusive>>

\* reset() that does nothing when handed nullptr, `if (p && p != ptr_)`.
PtrResetSkipsNull(w, p) ==
  /\ Running
  /\ w \in live
  /\ kind[w] = "scoped_ptr"
  /\ LET differs == p # ptr_[w] /\ p # Null
         freed == IF differs THEN DeleteExpr(ptr_[w]) ELSE <<>>
     IN /\ CanRecord(freed)
        /\ deleteCalls' = Record(deleteCalls, freed)
        /\ \E outcome \in Outcomes(freed) :
             /\ ptr_' = IF differs /\ outcome = "returned"
                          THEN [ptr_ EXCEPT ![w] = p]
                          ELSE ptr_
             /\ last' = [Call("scoped_ptr", "reset", w, ptr_[w])
                           EXCEPT !.arg = p, !.deleted = freed,
                                  !.outcome = outcome]
  /\ disciplined' = (disciplined /\ (p = ptr_[w] \/ Unowned(p)))
  /\ relinquished' = IF p # Null THEN relinquished \ {w} ELSE relinquished
  /\ exclusive' = (exclusive /\ NotShared(w, p))
  /\ custody' = Adopted(IF last'.outcome = "returned" THEN p ELSE Null,
                      exclusive')
  /\ UNCHANGED <<live, kind, array_, deleteArrayCalls, heap, ndebug,
                 written>>

\* reset() without `ptr_ = p`: it deletes and keeps the old pointer.
PtrResetDangles(w, p) ==
  /\ Running
  /\ w \in live
  /\ kind[w] = "scoped_ptr"
  /\ LET differs == p # ptr_[w]
         freed == IF differs THEN DeleteExpr(ptr_[w]) ELSE <<>>
     IN /\ CanRecord(freed)
        /\ deleteCalls' = Record(deleteCalls, freed)
        /\ \E outcome \in Outcomes(freed) :
             /\ ptr_' = ptr_
             /\ last' = [Call("scoped_ptr", "reset", w, ptr_[w])
                           EXCEPT !.arg = p, !.deleted = freed,
                                  !.outcome = outcome]
  /\ disciplined' = (disciplined /\ (p = ptr_[w] \/ Unowned(p)))
  /\ relinquished' = IF p # Null THEN relinquished \ {w} ELSE relinquished
  /\ exclusive' = (exclusive /\ NotShared(w, p))
  /\ custody' = Adopted(IF last'.outcome = "returned" THEN p ELSE Null,
                      exclusive')
  /\ UNCHANGED <<live, kind, array_, deleteArrayCalls, heap, ndebug,
                 written>>

\* reset() without its test `p != ptr_`: it deletes and assigns every time.
PtrResetAlways(w, p) ==
  /\ Running
  /\ w \in live
  /\ kind[w] = "scoped_ptr"
  /\ LET freed == DeleteExpr(ptr_[w])
     IN /\ CanRecord(freed)
        /\ deleteCalls' = Record(deleteCalls, freed)
        /\ \E outcome \in Outcomes(freed) :
             /\ ptr_' = IF outcome = "returned"
                          THEN [ptr_ EXCEPT ![w] = p]
                          ELSE ptr_
             /\ last' = [Call("scoped_ptr", "reset", w, ptr_[w])
                           EXCEPT !.arg = p, !.deleted = freed,
                                  !.outcome = outcome]
  /\ disciplined' = (disciplined /\ (p = ptr_[w] \/ Unowned(p)))
  /\ relinquished' = IF p # Null THEN relinquished \ {w} ELSE relinquished
  /\ exclusive' = (exclusive /\ NotShared(w, p))
  /\ custody' = Adopted(IF last'.outcome = "returned" THEN p ELSE Null,
                      exclusive')
  /\ UNCHANGED <<live, kind, array_, deleteArrayCalls, heap, ndebug,
                 written>>

\* void reset(C* p = nullptr) { if (p != ptr_) { delete ptr_; ptr_ = p; } }
PtrReset(w, p) ==
  /\ Running
  /\ w \in live
  /\ kind[w] = "scoped_ptr"
  /\ LET differs == p # ptr_[w]
         freed == IF differs THEN DeleteExpr(ptr_[w]) ELSE <<>>
     IN /\ CanRecord(freed)
        /\ deleteCalls' = Record(deleteCalls, freed)
        /\ \E outcome \in Outcomes(freed) :
             /\ ptr_' = IF differs /\ outcome = "returned"
                          THEN [ptr_ EXCEPT ![w] = p]
                          ELSE ptr_
             /\ last' = [Call("scoped_ptr", "reset", w, ptr_[w])
                           EXCEPT !.arg = p, !.deleted = freed,
                                  !.outcome = outcome]
  /\ disciplined' = (disciplined /\ (p = ptr_[w] \/ Unowned(p)))
  /\ relinquished' = IF p # Null THEN relinquished \ {w} ELSE relinquished
  /\ exclusive' = (exclusive /\ NotShared(w, p))
  /\ custody' = Adopted(IF last'.outcome = "returned" THEN p ELSE Null,
                      exclusive')
  /\ UNCHANGED <<live, kind, array_, deleteArrayCalls, heap, ndebug,
                 written>>

\* swap() by exclusive-or of the two pointers, without a temporary: it
\* exchanges two instances and nulls an instance swapped with itself.
PtrSwapXor(w, w2) ==
  /\ Running
  /\ w \in live /\ w2 \in live
  /\ kind[w] = "scoped_ptr" /\ kind[w2] = "scoped_ptr"
  /\ LET tmp == ptr_[w]
         first == [ptr_ EXCEPT ![w] = ptr_[w2]]
     IN ptr_' = IF w = w2
                  THEN [ptr_ EXCEPT ![w] = Null]
                  ELSE [first EXCEPT ![w2] = tmp]
  /\ relinquished' = (relinquished \ (IF ptr_[w2] # Null THEN {w} ELSE {}))
                       \ (IF ptr_[w] # Null THEN {w2} ELSE {})
  /\ last' = [Call("scoped_ptr", "swap", w, ptr_[w])
                EXCEPT !.arg = w2, !.argOld = ptr_[w2]]
  /\ UNCHANGED <<live, kind, array_, deleteCalls, deleteArrayCalls,
                 heap, ndebug, disciplined,
                 written, custody, exclusive>>

\* swap() without its last statement `p2.ptr_ = tmp`: it copies p2's pointer.
PtrSwapCopies(w, w2) ==
  /\ Running
  /\ w \in live /\ w2 \in live
  /\ kind[w] = "scoped_ptr" /\ kind[w2] = "scoped_ptr"
  /\ ptr_' = [ptr_ EXCEPT ![w] = ptr_[w2]]
  /\ relinquished' = (relinquished \ (IF ptr_[w2] # Null THEN {w} ELSE {}))
                       \ (IF ptr_[w] # Null THEN {w2} ELSE {})
  /\ last' = [Call("scoped_ptr", "swap", w, ptr_[w])
                EXCEPT !.arg = w2, !.argOld = ptr_[w2]]
  /\ UNCHANGED <<live, kind, array_, deleteCalls, deleteArrayCalls,
                 heap, ndebug, disciplined,
                 written, custody, exclusive>>

\* void swap(scoped_ptr& p2) { C* tmp = ptr_; ptr_ = p2.ptr_; p2.ptr_ = tmp; }
PtrSwap(w, w2) ==
  /\ Running
  /\ w \in live /\ w2 \in live
  /\ kind[w] = "scoped_ptr" /\ kind[w2] = "scoped_ptr"
  /\ LET tmp == ptr_[w]
         first == [ptr_ EXCEPT ![w] = ptr_[w2]]
     IN ptr_' = [first EXCEPT ![w2] = tmp]
  /\ relinquished' = (relinquished \ (IF ptr_[w2] # Null THEN {w} ELSE {}))
                       \ (IF ptr_[w] # Null THEN {w2} ELSE {})
  /\ last' = [Call("scoped_ptr", "swap", w, ptr_[w])
                EXCEPT !.arg = w2, !.argOld = ptr_[w2]]
  /\ UNCHANGED <<live, kind, array_, deleteCalls, deleteArrayCalls,
                 heap, ndebug, disciplined,
                 written, custody, exclusive>>

\* release() without `ptr_ = nullptr`: it returns the pointer and keeps it.
PtrReleaseKeeps(w) ==
  /\ Running
  /\ w \in live
  /\ kind[w] = "scoped_ptr"
  /\ LET retVal == ptr_[w]
     IN last' = [Call("scoped_ptr", "release", w, ptr_[w])
                   EXCEPT !.ret = retVal]
  /\ relinquished' = relinquished \cup {w}
  /\ custody' = custody \ {ptr_[w]}
  /\ UNCHANGED <<live, kind, ptr_, array_, deleteCalls, deleteArrayCalls,
                 heap, ndebug, disciplined,
                 written, exclusive>>

\* C* release() { C* retVal = ptr_; ptr_ = nullptr; return retVal; }
PtrRelease(w) ==
  /\ Running
  /\ w \in live
  /\ kind[w] = "scoped_ptr"
  /\ LET retVal == ptr_[w]
     IN /\ ptr_' = [ptr_ EXCEPT ![w] = Null]
        /\ last' = [Call("scoped_ptr", "release", w, ptr_[w])
                      EXCEPT !.ret = retVal]
  /\ relinquished' = relinquished \cup {w}
  /\ custody' = custody \ {ptr_[w]}
  /\ UNCHANGED <<live, kind, array_, deleteCalls, deleteArrayCalls,
                 heap, ndebug, disciplined,
                 written, exclusive>>

\* assert(cond) from <assert.h>: expands to nothing when NDEBUG is defined,
\* otherwise aborts the program unless cond holds.  TRUE: execution goes on.
assert(cond) == ndebug \/ cond

\* C& operator*() const { assert(ptr_ != nullptr); return *ptr_; }
\* Without the check, `*ptr_` on a null pointer is undefined: the build may
\* trap there or hand back a reference to anything.
PtrDeref(w) ==
  /\ Running
  /\ w \in live
  /\ kind[w] = "scoped_ptr"
  /\ IF ~assert(ptr_[w] # Null)
       THEN last' = [Call("scoped_ptr", "deref", w, ptr_[w])
                       EXCEPT !.outcome = "aborted"]
       ELSE IF ptr_[w] # Null
         THEN last' = [Call("scoped_ptr", "deref", w, ptr_[w])
                         EXCEPT !.ret = ptr_[w]]
         ELSE \/ last' = [Call("scoped_ptr", "deref", w, ptr_[w])
                            EXCEPT !.outcome = "aborted"]
              \/ \E g \in Pointers :
                   last' = [Call("scoped_ptr", "deref", w, ptr_[w])
                              EXCEPT !.ret = g]
  /\ UNCHANGED <<live, kind, ptr_, array_, deleteCalls,
                 deleteArrayCalls, heap, ndebug, disciplined, relinquished,
                 written, custody, exclusive>>

\* operator->() without its assert.
PtrArrowUnchecked(w) ==
  /\ Running
  /\ w \in live
  /\ kind[w] = "scoped_ptr"
  /\ last' = [Call("scoped_ptr", "arrow", w, ptr_[w])
                EXCEPT !.ret = ptr_[w]]
  /\ UNCHANGED <<live, kind, ptr_, array_, deleteCalls,
                 deleteArrayCalls, heap, ndebug, disciplined, relinquished,
                 written, custody, exclusive>>

\* C* operator->() const { assert(ptr_ != nullptr); return ptr_; }
PtrArrow(w) ==
  /\ Running
  /\ w \in live
  /\ kind[w] = "scoped_ptr"
  /\ IF ~assert(ptr_[w] # Null)
       THEN last' = [Call("scoped_ptr", "arrow", w, ptr_[w])
                       EXCEPT !.outcome = "aborted"]
       ELSE last' = [Call("scoped_ptr", "arrow", w, ptr_[w])
                       EXCEPT !.ret = ptr_[w]]
  /\ UNCHANGED <<live, kind, ptr_, array_, deleteCalls,
                 deleteArrayCalls, heap, ndebug, disciplined, relinquished,
                 written, custody, exclusive>>

\* get() with the body of release(): it nulls ptr_ before returning.
PtrGetReleases(w) ==
  /\ Running
  /\ w \in live
  /\ kind[w] = "scoped_ptr"
  /\ ptr_' = [ptr_ EXCEPT ![w] = Null]
  /\ last' = [Call("scoped_ptr", "get", w, ptr_[w])
                EXCEPT !.ret = ptr_[w]]
  /\ UNCHANGED <<live, kind, array_, deleteCalls,
                 deleteArrayCalls, heap, ndebug, disciplined, relinquished,
                 written, custody, exclusive>>

\* C* get() const { return ptr_; }
PtrGet(w) ==
  /\ Running
  /\ w \in live
  /\ kind[w] = "scoped_ptr"
  /\ last' = [Call("scoped_ptr", "get", w, ptr_[w])
                EXCEPT !.ret = ptr_[w]]
  /\ UNCHANGED <<live, kind, ptr_, array_, deleteCalls,
                 deleteArrayCalls, heap, ndebug, disciplined, relinquished,
                 written, custody, exclusive>>

\* operator==() comparing the pointees, `*ptr_ == *p`, where both exist.
PtrEqualsByValue(w, p) ==
  /\ Running
  /\ w \in live
  /\ kind[w] = "scoped_ptr"
  /\ last' = [Call("scoped_ptr", "==", w, ptr_[w])
                EXCEPT !.arg = p,
                       !.truth = IF ptr_[w] = Null \/ p = Null
                                   THEN ptr_[w] = p
                                   ELSE heap[ptr_[w]] = heap[p]]
  /\ UNCHANGED <<live, kind, ptr_, array_, deleteCalls,
                 deleteArrayCalls, heap, ndebug, disciplined, relinquished,
                 written, custody, exclusive>>

\* bool operator==(C* p) const { return ptr_ == p; }
PtrEquals(w, p) ==
  /\ Running
  /\ w \in live
  /\ kind[w] = "scoped_ptr"
  /\ last' = [Call("scoped_ptr", "==", w, ptr_[w])
                EXCEPT !.arg = p, !.truth = (ptr_[w] = p)]
  /\ UNCHANGED <<live, kind, ptr_, array_, deleteCalls, deleteArrayCalls, heap,
                 ndebug, disciplined, relinquished,
                 written, custody, exclusive>>

\* bool operator!=(C* p) const { return ptr_ != p; }
PtrNotEquals(w, p) ==
  /\ Running
  /\ w \in live
  /\ kind[w] = "scoped_ptr"
  /\ last' = [Call("scoped_ptr", "!=", w, ptr_[w])
                EXCEPT !.arg = p, !.truth = (ptr_[w] # p)]
  /\ UNCHANGED <<live, kind, ptr_, array_, deleteCalls, deleteArrayCalls, heap,
                 ndebug, disciplined, relinquished,
                 written, custody, exclusive>>

\* -------------------------------------------------------- scoped_array
\* A constructor that ignores its argument, `array_(nullptr)`.
ArrConstructEmpty(w, p) ==
  /\ Running
  /\ w \notin live
  /\ live' = live \cup {w}
  /\ kind' = [kind EXCEPT ![w] = "scoped_array"]
  /\ array_' = [array_ EXCEPT ![w] = Null]
  /\ disciplined' = (disciplined /\ Unowned(p))
  /\ relinquished' = relinquished \ {w}
  /\ last' = [Call("scoped_array", "construct", w, Null)
                EXCEPT !.arg = p]
  /\ exclusive' = (exclusive /\ NotShared(w, p))
  /\ custody' = Adopted(p, exclusive')
  /\ UNCHANGED <<ptr_, deleteCalls, deleteArrayCalls, heap, ndebug,
                 written>>

\* explicit scoped_array(C* p = nullptr) : array_(p) { }
ArrConstruct(w, p) ==
  /\ Running
  /\ w \notin live
  /\ live' = live \cup {w}
  /\ kind' = [kind EXCEPT ![w] = "scoped_array"]
  /\ array_' = [array_ EXCEPT ![w] = p]
  /\ disciplined' = (disciplined /\ Unowned(p))
  /\ relinquished' = relinquished \ {w}
  /\ last' = [Call("scoped_array", "construct", w, Null)
                EXCEPT !.arg = p]
  /\ exclusive' = (exclusive /\ NotShared(w, p))
  /\ custody' = Adopted(p, exclusive')
  /\ UNCHANGED <<ptr_, deleteCalls, deleteArrayCalls, heap, ndebug,
                 written>>

\* A destructor without `delete[] array_`.
ArrDestructLeaks(w) ==
  /\ Running
  /\ w \in live
  /\ kind[w] = "scoped_array"
  /\ live' = live \ {w}
  /\ kind' = [kind EXCEPT ![w] = "none"]
  /\ array_' = [array_ EXCEPT ![w] = Null]
  /\ relinquished' = relinquished \ {w}
  /\ last' = Call("scoped_array", "destruct", w, array_[w])
  /\ UNCHANGED <<ptr_, deleteCalls, deleteArrayCalls, heap, ndebug,
                 disciplined,
                 written, custody, exclusive>>

\* A destructor with `delete array_` in place of `delete[] array_`.
ArrDestructScalar(w) ==
  /\ Running
  /\ w \in live
  /\ kind[w] = "scoped_array"
  /\ CanRecord(DeleteExpr(array_[w]))
  /\ deleteCalls' = Record(deleteCalls, DeleteExpr(array_[w]))
  /\ \E outcome \in Outcomes(DeleteExpr(array_[w])) :
       /\ last' = [Call("scoped_array", "destruct", w, array_[w])
                     EXCEPT !.deleted = DeleteExpr(array_[w]),
                            !.outcome = outcome]
       /\ IF outcome = "returned"
            THEN /\ live' = live \ {w}
                 /\ kind' = [kind EXCEPT ![w] = "none"]
                 /\ array_' = [array_ EXCEPT ![w] = Null]
                 /\ relinquished' = relinquished \ {w}
            ELSE UNCHANGED <<live, kind, array_, relinquished>>
  /\ UNCHANGED <<ptr_, deleteArrayCalls, heap, ndebug, disciplined,
                 written, custody, exclusive>>

\* ~scoped_array() { delete[] array_; }   The instance's storage ends with it.
ArrDestruct(w) ==
  /\ Running
  /\ w \in live
  /\ kind[w] = "scoped_array"
  /\ CanRecord(DeleteExpr(array_[w]))
  /\ deleteArrayCalls' = Record(deleteArrayCalls, DeleteExpr(array_[w]))
  /\ \E outcome \in Outcomes(DeleteExpr(array_[w])) :
       /\ last' = [Call("scoped_array", "destruct", w, array_[w])
                     EXCEPT !.deletedArr = DeleteExpr(array_[w]),
                            !.outcome = outcome]
       /\ IF outcome = "returned"
            THEN /\ live' = live \ {w}
                 /\ kind' = [kind EXCEPT ![w] = "none"]
                 /\ array_' = [array_ EXCEPT ![w] = Null]
                 /\ relinquished' = relinquished \ {w}
            ELSE UNCHANGED <<live, kind, array_, relinquished>>
  /\ UNCHANGED <<ptr_, deleteCalls, heap, ndebug, disciplined,
                 written, custody, exclusive>>

\* reset() without `delete[] array_`: it only assigns.
ArrResetLeaks(w, p) ==
  /\ Running
  /\ w \in live
  /\ kind[w] = "scoped_array"
  /\ LET differs == p # array_[w]
     IN /\ array_' = IF differs THEN [array_ EXCEPT ![w] = p] ELSE array_
        /\ last' = [Call("scoped_array", "reset", w, array_[w])
                      EXCEPT !.arg = p]
  /\ disciplined' = (disciplined /\ (p = array_[w] \/ Unowned(p)))
  /\ relinquished' = IF p # Null THEN relinquished \ {w} ELSE relinquished
  /\ exclusive' = (exclusive /\ NotShared(w, p))
  /\ custody' = Adopted(IF last'.outcome = "returned" THEN p ELSE Null,
                      exclusive')
  /\ UNCHANGED <<live, kind, ptr_, deleteCalls, deleteArrayCalls, heap,
                 ndebug,
                 written>>

\* reset() with the test inverted, `p == array_`: it frees on a self-reset.
ArrResetInverted(w, p) ==
  /\ Running
  /\ w \in live
  /\ kind[w] = "scoped_array"
  /\ LET same == p = array_[w]
         freed == IF same THEN DeleteExpr(array_[w]) ELSE <<>>
     IN /\ CanRecord(freed)
        /\ deleteArrayCalls' = Record(deleteArrayCalls, freed)
        /\ \E outcome \in Outcomes(freed) :
             /\ array_' = IF same /\ outcome = "returned"
                          THEN [array_ EXCEPT ![w] = p]
                          ELSE array_
             /\ last' = [Call("scoped_array", "reset", w, array_[w])
                           EXCEPT !.arg = p, !.deletedArr = freed,
                                  !.outcome = outcome]
  /\ disciplined' = (disciplined /\ (p = array_[w] \/ Unowned(p)))
  /\ relinquished' = IF p # Null THEN relinquished \ {w} ELSE relinquished
  /\ exclusive' = (exclusive /\ NotShared(w, p))
  /\ custody' = Adopted(IF last'.outcome = "returned" THEN p ELSE Null,
                      exclusive')
  /\ UNCHANGED <<live, kind, ptr_, deleteCalls, heap, ndebug,
                 written>>

\* void reset(C* p = nullptr) { if (p != array_) { delete[] array_; array_ = p; } }
ArrReset(w, p) ==
  /\ Running
  /\ w \in live
  /\ kind[w] = "scoped_array"
  /\ LET differs == p # array_[w]
         freed == IF differs THEN DeleteExpr(array_[w]) ELSE <<>>
     IN /\ CanRecord(freed)
        /\ deleteArrayCalls' = Record(deleteArrayCalls, freed)
        /\ \E outcome \in Outcomes(freed) :
             /\ array_' = IF differs /\ outcome = "returned"
                          THEN [array_ EXCEPT ![w] = p]
                          ELSE array_
             /\ last' = [Call("scoped_array", "reset", w, array_[w])
                           EXCEPT !.arg = p, !.deletedArr = freed,
                                  !.outcome = outcome]
  /\ disciplined' = (disciplined /\ (p = array_[w] \/ Unowned(p)))
  /\ relinquished' = IF p # Null THEN relinquished \ {w} ELSE relinquished
  /\ exclusive' = (exclusive /\ NotShared(w, p))
  /\ custody' = Adopted(IF last'.outcome = "returned" THEN p ELSE Null,
                      exclusive')
  /\ UNCHANGED <<live, kind, ptr_, deleteCalls, heap, ndebug,
                 written>>

\* C& operator[](std::ptrdiff_t i) const
\*   { assert(i >= 0); assert(array_ != nullptr); return array_[i]; }
\* Without the checks, `array_[i]` with a null array_ or a negative i is
\* undefined: the build may trap there or hand back a reference to anything.
\* A returned element is named by its array (ret) and its index (arg); the
\* wrapper makes no upper-bound check.
ArrIndex(w, i) ==
  /\ Running
  /\ w \in live
  /\ kind[w] = "scoped_array"
  /\ IF ~assert(i >= 0) \/ ~assert(array_[w] # Null)
       THEN last' = [Call("scoped_array", "[]", w, array_[w])
                       EXCEPT !.arg = i, !.outcome = "aborted"]
       ELSE IF i >= 0 /\ array_[w] # Null
         THEN last' = [Call("scoped_array", "[]", w, array_[w])
                         EXCEPT !.arg = i, !.ret = array_[w]]
         ELSE \/ last' = [Call("scoped_array", "[]", w, array_[w])
                            EXCEPT !.arg = i, !.outcome = "aborted"]
              \/ \E g \in Pointers :
                   last' = [Call("scoped_array", "[]", w, array_[w])
                              EXCEPT !.arg = i, !.ret = g]
  /\ UNCHANGED <<live, kind, ptr_, array_, deleteCalls,
                 deleteArrayCalls, heap, ndebug, disciplined, relinquished,
                 written, custody, exclusive>>

\* An operator[] that always designates the first element, `array_[0]`.
ElementFirst(a, i) == <<a, 0>>

\* `array_[i]`: the element at index i of the allocation array_ points to.
Element(a, i) == <<a, i>>

\* `array_[i]` is defined: i lies inside an allocation that array_ points to
\* and that has not been deallocated.
Defined(a, i) == a # Null /\ i \in Cells /\ Deallocs(a) = 0

\* a[i] = v;   The client assigns through the reference operator[] returns.
\* Where `array_[i]` is undefined and the call returns, the store lands
\* outside every allocation of the model or in any element of one.
ArrStore(w, i, v) ==
  /\ Running
  /\ w \in live
  /\ kind[w] = "scoped_array"
  /\ IF ~assert(i >= 0) \/ ~assert(array_[w] # Null)
       THEN /\ last' = [Call("scoped_array", "store", w, array_[w])
                          EXCEPT !.arg = i, !.value = v,
                                 !.outcome = "aborted"]
            /\ UNCHANGED <<heap, written>>
       ELSE IF Defined(array_[w], i)
         THEN LET elem == Element(array_[w], i)
              IN /\ heap' = [heap EXCEPT ![elem[1]][elem[2]] = v]
                 /\ written' = [written EXCEPT ![array_[w]][i] = v]
                 /\ last' = [Call("scoped_array", "store", w, array_[w])
                               EXCEPT !.arg = i, !.value = v,
                                      !.ret = array_[w]]
         ELSE \/ /\ last' = [Call("scoped_array", "store", w, array_[w])
                               EXCEPT !.arg = i, !.value = v,
                                      !.outcome = "aborted"]
                 /\ UNCHANGED <<heap, written>>
              \/ /\ last' = [Call("scoped_array", "store", w, array_[w])
                               EXCEPT !.arg = i, !.value = v]
                 /\ \/ UNCHANGED <<heap, written>>
                    \/ \E r \in Refs, j \in Cells :
                         /\ heap' = [heap EXCEPT ![r][j] = v]
                         /\ written' = [written EXCEPT ![r][j] = v]
  /\ UNCHANGED <<live, kind, ptr_, array_, deleteCalls, deleteArrayCalls,
                 ndebug, disciplined, relinquished, custody, exclusive>>

\* v = a[i];   The client reads through the reference operator[] returns.
\* Where `array_[i]` is undefined and the call returns, it reads any value.
ArrLoad(w, i) ==
  /\ Running
  /\ w \in live
  /\ kind[w] = "scoped_array"
  /\ IF ~assert(i >= 0) \/ ~assert(array_[w] # Null)
       THEN last' = [Call("scoped_array", "load", w, array_[w])
                       EXCEPT !.arg = i, !.outcome = "aborted"]
       ELSE IF Defined(array_[w], i)
         THEN LET elem == Element(array_[w], i)
              IN last' = [Call("scoped_array", "load", w, array_[w])
                            EXCEPT !.arg = i, !.ret = array_[w],
                                   !.value = heap[elem[1]][elem[2]]]
         ELSE \/ last' = [Call("scoped_array", "load", w, array_[w])
                            EXCEPT !.arg = i, !.outcome = "aborted"]
              \/ \E g \in Values :
                   last' = [Call("scoped_array", "load", w, array_[w])
                              EXCEPT !.arg = i, !.value = g]
  /\ UNCHANGED <<live, kind, ptr_, array_, deleteCalls, deleteArrayCalls,
                 heap, ndebug, disciplined, relinquished, written, custody,
                 exclusive>>

\* C* get() const { return array_; }
ArrGet(w) ==
  /\ Running
  /\ w \in live
  /\ kind[w] = "scoped_array"
  /\ last' = [Call("scoped_array", "get", w, array_[w])
                EXCEPT !.ret = array_[w]]
  /\ UNCHANGED <<live, kind, ptr_, array_, deleteCalls,
                 deleteArrayCalls, heap, ndebug, disciplined, relinquished,
                 written, custody, exclusive>>

\* bool operator==(C* p) const { return array_ == p; }
ArrEquals(w, p) ==
  /\ Running
  /\ w \in live
  /\ kind[w] = "scoped_array"
  /\ last' = [Call("scoped_array", "==", w, array_[w])
                EXCEPT !.arg = p, !.truth = (array_[w] = p)]
  /\ UNCHANGED <<live, kind, ptr_, array_, deleteCalls, deleteArrayCalls, heap,
                 ndebug, disciplined, relinquished,
                 written, custody, exclusive>>

\* bool operator!=(C* p) const { return array_ != p; }
ArrNotEquals(w, p) ==
  /\ Running
  /\ w \in live
  /\ kind[w] = "scoped_array"
  /\ last' = [Call("scoped_array", "!=", w, array_[w])
                EXCEPT !.arg = p, !.truth = (array_[w] # p)]
  /\ UNCHANGED <<live, kind, ptr_, array_, deleteCalls, deleteArrayCalls, heap,
                 ndebug, disciplined, relinquished,
                 written, custody, exclusive>>

\* swap() without tmp, `array_ = p2.array_; p2.array_ = array_;`.
ArrSwapNoTmp(w, w2) ==
  /\ Running
  /\ w \in live /\ w2 \in live
  /\ kind[w] = "scoped_array" /\ kind[w2] = "scoped_array"
  /\ LET first == [array_ EXCEPT ![w] = array_[w2]]
     IN array_' = [first EXCEPT ![w2] = first[w]]
  /\ relinquished' = (relinquished \ (IF array_[w2] # Null THEN {w} ELSE {}))
                       \ (IF array_[w] # Null THEN {w2} ELSE {})
  /\ last' = [Call("scoped_array", "swap", w, array_[w])
                EXCEPT !.arg = w2, !.argOld = array_[w2]]
  /\ UNCHANGED <<live, kind, ptr_, deleteCalls, deleteArrayCalls,
                 heap, ndebug, disciplined,
                 written, custody, exclusive>>

\* void swap(scoped_array& p2)
\*   { C* tmp = array_; array_ = p2.array_; p2.array_ = tmp; }
ArrSwap(w, w2) ==
  /\ Running
  /\ w \in live /\ w2 \in live
  /\ kind[w] = "scoped_array" /\ kind[w2] = "scoped_array"
  /\ LET tmp == array_[w]
         first == [array_ EXCEPT ![w] = array_[w2]]
     IN array_' = [first EXCEPT ![w2] = tmp]
  /\ relinquished' = (relinquished \ (IF array_[w2] # Null THEN {w} ELSE {}))
                       \ (IF array_[w] # Null THEN {w2} ELSE {})
  /\ last' = [Call("scoped_array", "swap", w, array_[w])
                EXCEPT !.arg = w2, !.argOld = array_[w2]]
  /\ UNCHANGED <<live, kind, ptr_, deleteCalls, deleteArrayCalls,
                 heap, ndebug, disciplined,
                 written, custody, exclusive>>

\* C* release() { C* retVal = array_; array_ = nullptr; return retVal; }
ArrRelease(w) ==
  /\ Running
  /\ w \in live
  /\ kind[w] = "scoped_array"
  /\ LET retVal == array_[w]
     IN /\ array_' = [array_ EXCEPT ![w] = Null]
        /\ last' = [Call("scoped_array", "release", w, array_[w])
                      EXCEPT !.ret = retVal]
  /\ relinquished' = relinquished \cup {w}
  /\ custody' = custody \ {array_[w]}
  /\ UNCHANGED <<live, kind, ptr_, deleteCalls, deleteArrayCalls,
                 heap, ndebug, disciplined,
                 written, exclusive>>

\* ---------------------------------------------------------------- Next
Next ==
  \/ \E w \in Wrappers, p \in Pointers : PtrConstruct(w, p)
  \/ \E w \in Wrappers : PtrDestruct(w)
  \/ \E w \in Wrappers, p \in Pointers : PtrReset(w, p)
  \/ \E w \in Wrappers : PtrDeref(w)
  \/ \E w \in Wrappers : PtrArrow(w)
  \/ \E w \in Wrappers : PtrGet(w)
  \/ \E w \in Wrappers, p \in Pointers : PtrEquals(w, p)
  \/ \E w \in Wrappers, p \in Pointers : PtrNotEquals(w, p)
  \/ \E w \in Wrappers, w2 \in Wrappers : PtrSwap(w, w2)
  \/ \E w \in Wrappers : PtrRelease(w)
  \/ \E w \in Wrappers, p \in Pointers : ArrConstruct(w, p)
  \/ \E w \in Wrappers : ArrDestruct(w)
  \/ \E w \in Wrappers, p \in Pointers : ArrReset(w, p)
  \/ \E w \in Wrappers, i \in Indices : ArrIndex(w, i)
  \/ \E w \in Wrappers : ArrGet(w)
  \/ \E w \in Wrappers, p \in Pointers : ArrEquals(w, p)
  \/ \E w \in Wrappers, p \in Pointers : ArrNotEquals(w, p)
  \/ \E w \in Wrappers, w2 \in Wrappers : ArrSwap(w, w2)
  \/ \E w \in Wrappers : ArrRelease(w)

Spec == Init /\ [][Next]_vars

\* A client that keeps one scoped_array instance at a time, in the first
\* slot, and reads and writes the elements of its array through operator[].
ArraySlots == {w \in Wrappers : \A v \in Wrappers : w <= v}

NextArray ==
  \/ \E w \in ArraySlots, p \in Pointers : ArrConstruct(w, p)
  \/ \E w \in ArraySlots : ArrDestruct(w)
  \/ \E w \in ArraySlots, p \in Pointers : ArrReset(w, p)
  \/ \E w \in ArraySlots, i \in Indices : ArrIndex(w, i)
  \/ \E w \in ArraySlots, i \in Indices, v \in Values : ArrStore(w, i, v)
  \/ \E w \in ArraySlots, i \in Indices : ArrLoad(w, i)
  \/ \E w \in ArraySlots : ArrGet(w)
  \/ \E w \in ArraySlots, p \in Pointers : ArrEquals(w, p)
  \/ \E w \in ArraySlots, p \in Pointers : ArrNotEquals(w, p)
  \/ \E w \in ArraySlots, w2 \in ArraySlots : ArrSwap(w, w2)
  \/ \E w \in ArraySlots : ArrRelease(w)

SpecArray == Init /\ [][NextArray]_vars

\* ---------------------------------------------------------- properties
\* Neither deallocation primitive was called during the last call.
NothingFreed == last.deleted = <<>> /\ last.deletedArr = <<>>

\* The last call handed exactly the pointer p to the deallocation primitive
\* of its instance's class, once, and made no other deallocation call.
FreedOnce(p) ==
  IF last.class = "scoped_ptr"
    THEN last.deleted = <<p>> /\ last.deletedArr = <<>>
    ELSE last.deletedArr = <<p>> /\ last.deleted = <<>>

\* C1, as claimed: whatever sequence of construct, reset, swap, release and
\* destruct calls is made, no reference is handed to a deallocation
\* primitive more than once.
C1_DeallocatedAtMostOnce == \A r \in Refs : Deallocs(r) <= 1

\* C1, amended: as long as every pointer passed to a constructor or to
\* reset was null, the instance's own pointer, or a reference that no live
\* instance held and that had not been deallocated, no reference is handed
\* to a deallocation primitive more than once.
C1_DeallocatedAtMostOnceIfUnowned ==
  disciplined => \A r \in Refs : Deallocs(r) <= 1

\* C1 witness: a disciplined run in which a reset has freed one reference
\* and a destructor has just freed another.
C1_Witness ==
  /\ disciplined
  /\ last.op = "destruct"
  /\ last.old # Null
  /\ Deallocs(last.old) = 1
  /\ \E r \in Refs : r # last.old /\ Deallocs(r) = 1

BrokenAccess ==
  \/ last.op \in {"deref", "arrow"} /\ last.old = Null
  \/ last.op = "[]" /\ (last.old = Null \/ last.arg < 0)

\* C3, as claimed: in every build, operator* and operator-> on an instance
\* holding no pointer, and operator[] on an instance holding no pointer or
\* with a negative index, end the program at that call and return nothing.
C3_AccessAlwaysAborts == BrokenAccess => last.outcome = "aborted"

\* C3, amended: in a build that does not define NDEBUG, operator* and
\* operator-> on an instance holding no pointer, and operator[] on an
\* instance holding no pointer or with a negative index, end the program at
\* that call and return nothing.
C3_AccessAbortsWhenChecked ==
  (~ndebug /\ BrokenAccess) => last.outcome = "aborted"

\* C3 witness: a checked build has aborted in operator[] on a negative index
\* of an instance that owns an array.
C3_Witness ==
  /\ ~ndebug
  /\ last.op = "[]"
  /\ last.arg < 0
  /\ last.old # Null
  /\ last.outcome = "aborted"

\* C4: reset(p2) on an instance holding a reference old, with p2 # old,
\* hands old to the class's deallocation primitive exactly once and makes no
\* other deallocation call, and once it has returned get() = p2.
C4_ResetDistinct ==
  (last.op = "reset" /\ last.old # Null /\ last.arg # last.old) =>
    /\ FreedOnce(last.old)
    /\ Deallocs(last.old) >= 1
    /\ last.outcome = "returned" => Held(last.w) = last.arg

\* C4 witness: a reset replaced one reference by another one.
C4_Witness ==
  /\ last.op = "reset"
  /\ last.outcome = "returned"
  /\ last.old # Null
  /\ last.arg # Null
  /\ last.arg # last.old

\* C5: reset(get()) makes no deallocation call and leaves get() as it was,
\* whether the instance holds a reference or none.
C5_SelfReset ==
  (last.op = "reset" /\ last.arg = last.old) =>
    /\ NothingFreed
    /\ Held(last.w) = last.old

\* C5 witness: an instance that owns a reference was reset to that reference.
C5_Witness ==
  /\ last.op = "reset"
  /\ last.old # Null
  /\ last.arg = last.old

\* C6: release() returns the pointer get() gave before the call, makes no
\* deallocation call and leaves get() null; an instance that has been
\* released and given no reference by a reset or a swap since still holds
\* null, and destroying an instance that holds null makes no deallocation
\* call.
C6_Release ==
  /\ last.op = "release" =>
       /\ last.ret = last.old
       /\ NothingFreed
       /\ Held(last.w) = Null
  /\ \A w \in relinquished : w \in live /\ Held(w) = Null
  /\ (last.op = "destruct" /\ last.old = Null) => NothingFreed

\* C6 witness: an instance that owned a reference has just released it.
C6_Witness ==
  /\ last.op = "release"
  /\ last.old # Null
  /\ last.w \in relinquished

\* C7: a.swap(b) leaves a.get() equal to the pointer b held and b.get()
\* equal to the pointer a held, whether each held a reference or none, and
\* makes no deallocation call.
C7_Swap ==
  last.op = "swap" =>
    /\ Held(last.w) = last.argOld
    /\ Held(last.arg) = last.old
    /\ NothingFreed

\* C7 witness: two instances that own different references have swapped.
C7_Witness ==
  /\ last.op = "swap"
  /\ last.w # last.arg
  /\ last.old # Null
  /\ last.argOld # Null
  /\ last.old # last.argOld

\* C8: destroying an instance that holds a reference hands that reference
\* to the class's deallocation primitive exactly once and makes no other
\* deallocation call; destroying an instance that holds none makes no
\* deallocation call.
C8_Destruct ==
  last.op = "destruct" =>
    IF last.old # Null
      THEN FreedOnce(last.old) /\ Deallocs(last.old) >= 1
      ELSE NothingFreed

\* C8 witness: a scoped_ptr that owned a reference has been destroyed.
C8_Witness ==
  /\ last.op = "destruct"
  /\ last.class = "scoped_ptr"
  /\ last.old # Null

\* C9: a scoped_array never calls `delete` and a scoped_ptr never calls
\* `delete[]`: references counted by one primitive's counter were freed by
\* calls of that class; destroying a scoped_array that owns a reference
\* records one `delete[]` call and no `delete` call.
C9_MatchingPrimitive ==
  /\ last.class = "scoped_array" => last.deleted = <<>>
  /\ last.class = "scoped_ptr" => last.deletedArr = <<>>
  /\ (last.class = "scoped_array" /\ last.op = "destruct" /\ last.old # Null)
       => /\ Len(last.deletedArr) = 1
          /\ deleteArrayCalls[last.old] >= 1

\* C9 witness: a scoped_array that owned a reference has been destroyed and
\* the reference has one `delete[]` call and no `delete` call on record.
C9_Witness ==
  /\ last.op = "destruct"
  /\ last.class = "scoped_array"
  /\ last.old # Null
  /\ deleteArrayCalls[last.old] = 1
  /\ deleteCalls[last.old] = 0

\* C10: w == p is true exactly when w.get() and p are the same pointer, and
\* w != p exactly when they are not, whatever the pointees hold.
C10_IdentityComparison ==
  /\ last.op = "==" => (last.truth <=> Held(last.w) = last.arg)
  /\ last.op = "!=" => (last.truth <=> Held(last.w) # last.arg)

\* C10 witness: an instance was compared with a different reference whose
\* pointee holds the same value as its own, and == gave false.
C10_Witness ==
  /\ last.op = "=="
  /\ last.old # Null
  /\ last.arg # Null
  /\ last.arg # last.old
  /\ heap[last.arg] = heap[last.old]
  /\ ~last.truth

\* C11: right after an instance is constructed from a pointer p, null
\* included, its get() is p and no deallocation call has been made; the
\* default argument is nullptr, so a constructor called without an argument
\* gives an instance whose get() is null.  (The constructors only copy the
\* pointer into the member: they call no allocation function.)
C11_Construct ==
  last.op = "construct" =>
    /\ last.w \in live
    /\ Held(last.w) = last.arg
    /\ NothingFreed
    /\ last.outcome = "returned"

\* C11 witness: a scoped_array has just been constructed from a reference,
\* next to a live instance constructed from nullptr.
C11_Witness ==
  /\ last.op = "construct"
  /\ last.class = "scoped_array"
  /\ last.arg # Null
  /\ \E v \in live : v # last.w /\ Held(v) = Null

\* C12: on a scoped_array that owns an array, for an index i >= 0 inside the
\* allocation, reading through operator[](i) gives the value last stored
\* through operator[](i); operator[] and the reads and writes through it
\* leave get() as it was and make no deallocation call; a release() of an
\* owned array makes no deallocation call and, with disciplined callers,
\* leaves none on record for that array; and operator[] returns the element
\* for every i >= 0, index MaxIndex one past the end included: it makes no
\* upper-bound check.
C12_IndexedAccess ==
  /\ (last.op = "load" /\ last.outcome = "returned"
        /\ Defined(last.old, last.arg))
       => last.value = written[last.old][last.arg]
  /\ last.op \in {"[]", "load", "store"} =>
       /\ Held(last.w) = last.old
       /\ NothingFreed
  /\ (last.op = "release" /\ last.old # Null) =>
       /\ NothingFreed
       /\ disciplined => Deallocs(last.old) = 0
  /\ (last.op = "[]" /\ last.old # Null /\ last.arg >= 0) =>
       /\ last.outcome = "returned"
       /\ last.ret = last.old

\* C12 witness: a read through operator[] gave back a non-zero value that
\* was stored at that index, while another element of the array holds a
\* different value.
C12_Witness ==
  /\ last.op = "load"
  /\ last.outcome = "returned"
  /\ Defined(last.old, last.arg)
  /\ last.value # 0
  /\ \E j \in Cells : j # last.arg /\ heap[last.old][j] # last.value

\* C13: a reset(p) that differs from the held pointer hands the held
\* reference, if there is one, to the class's deallocation primitive once,
\* and a reset of an instance that holds null, or to the pointer it holds,
\* makes no deallocation call; once reset(p) has returned the instance is
\* live and get() = p whatever it held before, so that reset(nullptr), the
\* default argument, frees what an owning instance held and leaves it
\* holding null.
C13_ResetTarget ==
  last.op = "reset" =>
    /\ IF last.old # Null /\ last.old # last.arg
         THEN FreedOnce(last.old)
         ELSE NothingFreed
    /\ last.outcome = "returned" =>
         /\ last.w \in live
         /\ Held(last.w) = last.arg

\* C13 witness: reset(nullptr) on an instance that owned a reference has
\* freed it and left the instance holding null.
C13_Witness ==
  /\ last.op = "reset"
  /\ last.outcome = "returned"
  /\ last.old # Null
  /\ last.arg = Null
  /\ Deallocs(last.old) = 1
  /\ Held(last.w) = Null

\* C14: a call of get, operator==, operator!=, operator*, operator-> or
\* operator[] changes no instance's pointer, destroys no instance and makes
\* no deallocation call; get() always returns, and returns the held pointer,
\* which is null on an instance that holds none; and a call of reset,
\* release or the destructor on one instance leaves every other slot as it
\* was: same instance, same pointer.
C14_Frame ==
  [][/\ last'.op \in {"get", "==", "!=", "deref", "arrow", "[]"} =>
          /\ UNCHANGED <<live, kind, ptr_, array_>>
          /\ UNCHANGED <<deleteCalls, deleteArrayCalls>>
          /\ last'.deleted = <<>> /\ last'.deletedArr = <<>>
     /\ last'.op = "get" =>
          /\ last'.outcome = "returned"
          /\ last'.ret = Held(last'.w)
     /\ last'.op \in {"reset", "release", "destruct"} =>
          \A v \in Wrappers \ {last'.w} :
            /\ v \in live' <=> v \in live
            /\ kind'[v] = kind[v]
            /\ ptr_'[v] = ptr_[v]
            /\ array_'[v] = array_[v]
    ]_vars

\* C14 witness: get() on an instance that holds null has returned null,
\* next to a live instance that owns a reference.
C14_Witness ==
  /\ last.op = "get"
  /\ last.outcome = "returned"
  /\ last.old = Null
  /\ last.ret = Null
  /\ \E v \in live : v # last.w /\ Held(v) # Null

\* C15: as long as every pointer passed to a constructor or to reset was
\* null, the instance's own pointer, or a reference that no live instance
\* held and that had not been deallocated, no live instance holds a
\* reference that has been deallocated, and the pointer that get(), or a
\* dereference or indexing whose precondition held, has returned is null or
\* a reference that has not been deallocated.
C15_NoDangling ==
  disciplined =>
    /\ \A w \in live : Held(w) # Null => Deallocs(Held(w)) = 0
    /\ (last.op \in {"get", "deref", "arrow", "[]"}
          /\ last.outcome = "returned" /\ ~BrokenAccess)
         => (last.ret = Null \/ Deallocs(last.ret) = 0)

\* C15 witness: in a disciplined run in which a reference has been
\* deallocated by a reset, the instance that was reset owns another
\* reference and get() has just returned it.
C15_Witness ==
  /\ disciplined
  /\ last.op = "get"
  /\ last.ret # Null
  /\ Held(last.w) = last.ret
  /\ last.w \in live
  /\ \E r \in Refs : r # last.ret /\ Deallocs(r) = 1

\* C16, as claimed: as long as no call adopted a reference that another
\* live instance held, once every instance has been destroyed every
\* reference that was adopted and not handed back by release since has been
\* deallocated exactly once.
C16_NoLeak ==
  (exclusive /\ Running /\ live = {}) =>
    \A r \in custody : Deallocs(r) = 1

\* C16, amended: as long as every pointer passed to a constructor or to
\* reset was null, the instance's own pointer, or a reference that no live
\* instance held and that had not been deallocated, once every instance has
\* been destroyed every reference that was adopted and not handed back by
\* release since has been deallocated exactly once, and no other reference
\* has been deallocated.
C16_NoLeakIfUnowned ==
  (disciplined /\ Running /\ live = {}) =>
    \A r \in Refs : Deallocs(r) = (IF r \in custody THEN 1 ELSE 0)

\* C16 witness: in a disciplined run every reference has been adopted, the
\* last live instance has just been destroyed, and each reference has been
\* deallocated once.
C16_Witness ==
  /\ disciplined
  /\ live = {}
  /\ last.op = "destruct"
  /\ last.outcome = "returned"
  /\ custody = Refs
  /\ \A r \in Refs : Deallocs(r) = 1

\* C17: two calls in a row that undo each other.  w.release() followed by
\* w.reset() of the pointer that release returned leaves get() as it was
\* before the release and makes no deallocation call; a.swap(b) followed by
\* a.swap(b) leaves both instances holding what they held before the first
\* swap; a.swap(b) leaves the pointers that b.swap(a) would leave (b's
\* pointer saved, a's assigned to b, the saved one assigned to a); and
\* a.swap(a) changes nothing.  No swap makes a deallocation call.
C17_RoundTrips ==
  [][/\ (last.op = "release" /\ last'.op = "reset"
           /\ last'.w = last.w /\ last'.arg = last.ret)
          => /\ last'.outcome = "returned"
             /\ Held(last.w)' = last.old
             /\ NothingFreed /\ NothingFreed'
             /\ UNCHANGED <<live, deleteCalls, deleteArrayCalls>>
     /\ (last.op = "swap" /\ last'.op = "swap"
           /\ last'.w = last.w /\ last'.arg = last.arg)
          => /\ Held(last.w)' = last.old
             /\ Held(last.arg)' = last.argOld
     /\ last'.op = "swap" =>
          LET a == last'.w
              b == last'.arg
          IN /\ IF last'.class = "scoped_ptr"
                  THEN /\ ptr_' = [[ptr_ EXCEPT ![b] = ptr_[a]]
                                     EXCEPT ![a] = ptr_[b]]
                       /\ array_' = array_
                  ELSE /\ array_' = [[array_ EXCEPT ![b] = array_[a]]
                                       EXCEPT ![a] = array_[b]]
                       /\ ptr_' = ptr_
             /\ a = b => UNCHANGED <<ptr_, array_>>
             /\ NothingFreed'
             /\ UNCHANGED <<live, kind, deleteCalls, deleteArrayCalls>>
    ]_vars

\* C17 witness: an instance that owns a reference has been swapped with
\* itself and still owns it.
C17_Witness ==
  /\ last.op = "swap"
  /\ last.w = last.arg
  /\ last.old # Null
  /\ Held(last.w) = last.old
====
